---- MODULE Spec2Model ----
(***************************************************************************)
(* Model of the explainadoc document annotation engine:                    *)
(*   - the document store and its reducer (DocumentContext),               *)
(*   - the segmenter of the document viewer (segmentText),                 *)
(*   - the citation extractor of the chat sidebar (extractCitations,       *)
(*     stripCitations) and the citation activation (handleJumpToSource).   *)
(* Strings are sequences of one-character strings; offsets are 0-based as  *)
(* in the source, sequence indexes are 1-based.                            *)
(***************************************************************************)
EXTENDS Integers, Sequences, FiniteSets, TLC

VARIABLES
    state,        \* DocumentState held by useReducer in DocumentProvider
    segments,     \* useMemo(segmentText(content, highlights)) of DocumentViewer
    mounted,      \* TRUE once DocumentViewer has rendered
    timer,        \* id the pending 500 ms scroll-clear timeout was started for, or NULL
    rawText,      \* text of the assistant message streamed so far
    citations,    \* extractCitations(rawText) as rendered by MessageBubble
    displayText,  \* stripCitations(rawText) as rendered by MessageBubble
    chunkCount,   \* number of chunks of the assistant message received so far
    last,         \* the handler that ran last, with its input
    seenIds,      \* ids of every highlight that has ever been in the store
    input,        \* useState("") of ChatSidebar: the text of the composer
    status,       \* status of useChat: "ready", "submitted", "streaming" or "error"
    inFlight,     \* number of requests sent to /api/chat whose response has not ended
    toolCall,     \* <<input>> of the findCitationRanges tool call the route executes, or <<>>
    toolResult    \* <<ranges>> returned by findCitationRanges, <<>> before it has run

composerVars == <<input, status, inFlight>>

toolVars == <<toolCall, toolResult>>

vars == <<state, segments, mounted, timer, rawText, citations, displayText,
          chunkCount, last, seenIds, composerVars, toolVars>>

NULL == "null"

\* ------------------------------------------------------------------------
\* Bounds of the model
\* ------------------------------------------------------------------------
MaxContentLen == 3
MaxHighlights == 3
MaxChunks == 4
MaxStoreHighlights == 2
MaxComments == 2
MaxAppChunks == 2
MaxMessages == 2
MaxDocLen == 3
MaxQueryLen == 2
MaxResults == 2

\* ------------------------------------------------------------------------
\* Strings
\* ------------------------------------------------------------------------
Min(a, b) == IF a < b THEN a ELSE b

Max(a, b) == IF a > b THEN a ELSE b

Alphabet == <<"a", "b", "c", "d", "e", "f", "g", "h">>

\* The document text of length n used by the model: "abc..."
Doc(n) == SubSeq(Alphabet, 1, n)

\* String.prototype.slice(from, to): negative arguments count from the end,
\* both are clamped to [0, length], an inverted range gives "".
Slice(s, from, to) ==
    LET n == Len(s)
        a == IF from < 0 THEN Max(n + from, 0) ELSE Min(from, n)
        b == IF to < 0 THEN Max(n + to, 0) ELSE Min(to, n)
    IN  IF a < b THEN SubSeq(s, a + 1, b) ELSE <<>>

\* The elements of seq at the indexes in keep, in their order in seq
Pick(seq, keep) ==
    [r \in 1..Cardinality(keep) |->
        seq[CHOOSE x \in keep : Cardinality({ y \in keep : y <= x }) = r]]

\* ------------------------------------------------------------------------
\* Segmenter (DocumentViewer.segmentText)
\* ------------------------------------------------------------------------

\* One step of a stable insertion: h goes after every element whose start
\* is not greater than its own (Array.prototype.sort is stable).
RECURSIVE InsertByStart(_, _)
InsertByStart(h, sorted) ==
    IF sorted = <<>> THEN <<h>>
    ELSE IF Head(sorted).start <= h.start
         THEN <<Head(sorted)>> \o InsertByStart(h, Tail(sorted))
         ELSE <<h>> \o sorted

SortByStart_Unsorted(hs) == hs

\* [...highlights].sort((a, b) => a.start - b.start)
RECURSIVE SortByStart(_)
SortByStart(hs) ==
    IF hs = <<>> THEN <<>>
    ELSE InsertByStart(hs[Len(hs)], SortByStart(SubSeq(hs, 1, Len(hs) - 1)))

\* if (hl.start >= content.length || hl.end <= cursor) continue;
SkipHighlight(hl, content, cursor) ==
    hl.start >= Len(content) \/ hl.end <= cursor

ClampedStart(hl, cursor) == Max(hl.start, cursor)

ClampedEnd_Unclamped(hl, content) == hl.end

ClampedEnd(hl, content) == Min(hl.end, Len(content))

Segment(content, hl, start, end) ==
    [text |-> Slice(content, start, end), highlight |-> hl,
     start |-> start, end |-> end]

\* The for loop over the sorted highlights; a segment's highlight is <<>>
\* for plain text (null) and <<hl>> for a highlighted span.
RECURSIVE Sweep(_, _, _, _)
Sweep(content, sorted, cursor, segs) ==
    IF sorted = <<>> THEN [segments |-> segs, cursor |-> cursor]
    ELSE
        LET hl == Head(sorted) IN
        IF SkipHighlight(hl, content, cursor)
        THEN Sweep(content, Tail(sorted), cursor, segs)
        ELSE
            LET start == ClampedStart(hl, cursor)
                end   == ClampedEnd(hl, content)
                plain == IF start > cursor
                         THEN <<Segment(content, <<>>, cursor, start)>>
                         ELSE <<>>
            IN  Sweep(content, Tail(sorted), end,
                      segs \o plain \o <<Segment(content, <<hl>>, start, end)>>)

segmentText_OneSegmentForEmpty(content, highlights) ==
    IF Len(highlights) = 0
    THEN <<[text |-> content, highlight |-> <<>>, start |-> 0, end |-> Len(content)]>>
    ELSE
        LET r == Sweep(content, SortByStart(highlights), 0, <<>>)
        IN  IF r.cursor < Len(content)
            THEN Append(r.segments,
                        [text |-> Slice(content, r.cursor, Len(content)),
                         highlight |-> <<>>,
                         start |-> r.cursor, end |-> Len(content)])
            ELSE r.segments

segmentText(content, highlights) ==
    IF Len(content) = 0 THEN <<>>
    ELSE IF Len(highlights) = 0
    THEN <<[text |-> content, highlight |-> <<>>, start |-> 0, end |-> Len(content)]>>
    ELSE
        LET r == Sweep(content, SortByStart(highlights), 0, <<>>)
        IN  IF r.cursor < Len(content)
            THEN Append(r.segments,
                        [text |-> Slice(content, r.cursor, Len(content)),
                         highlight |-> <<>>,
                         start |-> r.cursor, end |-> Len(content)])
            ELSE r.segments

\* ------------------------------------------------------------------------
\* Store (DocumentContext: state, actions, reducer)
\* ------------------------------------------------------------------------
initialState ==
    [content |-> <<>>, highlights |-> <<>>, comments |-> <<>>,
     messages |-> <<>>, scrollToHighlightId |-> NULL,
     focusedHighlightId |-> NULL, isLoading |-> FALSE]

\* A DocumentAction; the actions without a payload carry NULL
Action(type, payload) == [type |-> type, payload |-> payload]

ReduceSetContent_ClearsHighlights(st, content) ==
    [st EXCEPT !.content = content, !.highlights = <<>>, !.comments = <<>>]

ReduceSetContent(st, content) == [st EXCEPT !.content = content]

ReduceAddHighlight(st, highlight) ==
    [st EXCEPT !.highlights = Append(st.highlights, highlight)]

ReduceRemoveHighlight_KeepComments(st, id) ==
    [st EXCEPT !.highlights = SelectSeq(st.highlights, LAMBDA h : h.id # id)]

ReduceRemoveHighlight_ClearsFocus(st, id) ==
    [st EXCEPT !.highlights = SelectSeq(st.highlights, LAMBDA h : h.id # id),
               !.comments = SelectSeq(st.comments, LAMBDA c : c.highlightId # id),
               !.focusedHighlightId = IF @ = id THEN NULL ELSE @]

ReduceRemoveHighlight(st, id) ==
    [st EXCEPT !.highlights = SelectSeq(st.highlights, LAMBDA h : h.id # id),
               !.comments = SelectSeq(st.comments, LAMBDA c : c.highlightId # id)]

ReduceClearHighlights_KeepComments(st) == [st EXCEPT !.highlights = <<>>]

ReduceClearHighlights_ClearCursors(st) ==
    [st EXCEPT !.highlights = <<>>, !.comments = <<>>,
               !.scrollToHighlightId = NULL, !.focusedHighlightId = NULL]

ReduceClearHighlights(st) ==
    [st EXCEPT !.highlights = <<>>, !.comments = <<>>]

ReduceAddComment(st, comment) ==
    [st EXCEPT !.comments = Append(st.comments, comment)]

ReduceRemoveComment(st, id) ==
    [st EXCEPT !.comments = SelectSeq(st.comments, LAMBDA c : c.id # id)]

ReduceAddMessage_Dedupe(st, message) ==
    IF \E i \in DOMAIN st.messages : st.messages[i].id = message.id
    THEN st
    ELSE [st EXCEPT !.messages = Append(st.messages, message)]

ReduceAddMessage(st, message) ==
    [st EXCEPT !.messages = Append(st.messages, message)]

ReduceClearMessages(st) == [st EXCEPT !.messages = <<>>]

ReduceScrollToHighlight(st, id) == [st EXCEPT !.scrollToHighlightId = id]

ReduceSetFocusedHighlight(st, id) == [st EXCEPT !.focusedHighlightId = id]

ReduceSetLoading(st, flag) == [st EXCEPT !.isLoading = flag]

\* The content the provider of the store specification is constructed with
\* (the initialContent prop of DocumentProvider)
InitialContent == Doc(2)

ReduceReset_RestoreContent(st) == [initialState EXCEPT !.content = InitialContent]

\* case "RESET": return initialState;
ReduceReset(st) == initialState

ReduceDefault_Reset(st) == initialState

\* default: return state;
ReduceDefault(st) == st

documentReducer(st, action) ==
    CASE action.type = "SET_CONTENT" -> ReduceSetContent(st, action.payload)
      [] action.type = "ADD_HIGHLIGHT" -> ReduceAddHighlight(st, action.payload)
      [] action.type = "REMOVE_HIGHLIGHT" -> ReduceRemoveHighlight(st, action.payload)
      [] action.type = "CLEAR_HIGHLIGHTS" -> ReduceClearHighlights(st)
      [] action.type = "ADD_COMMENT" -> ReduceAddComment(st, action.payload)
      [] action.type = "REMOVE_COMMENT" -> ReduceRemoveComment(st, action.payload)
      [] action.type = "ADD_MESSAGE" -> ReduceAddMessage(st, action.payload)
      [] action.type = "CLEAR_MESSAGES" -> ReduceClearMessages(st)
      [] action.type = "SCROLL_TO_HIGHLIGHT" -> ReduceScrollToHighlight(st, action.payload)
      [] action.type = "SET_FOCUSED_HIGHLIGHT" -> ReduceSetFocusedHighlight(st, action.payload)
      [] action.type = "SET_LOADING" -> ReduceSetLoading(st, action.payload)
      [] action.type = "RESET" -> ReduceReset(st)
      [] OTHER -> ReduceDefault(st)

\* The ids of the highlights of a list
HighlightIdsOf(highlights) == { highlights[i].id : i \in DOMAIN highlights }

NoHandler == [type |-> "none"]

\* The composer of ChatSidebar before anything is typed or sent
ComposerIdle == input = <<>> /\ status = "ready" /\ inFlight = 0

\* No findCitationRanges tool call is being executed
ToolIdle == toolCall = <<>> /\ toolResult = <<>>

\* ------------------------------------------------------------------------
\* Specification of the segmenter: the viewer is rendered once over an
\* arbitrary content and an arbitrary list of highlights.
\* ------------------------------------------------------------------------
\* Offsets around the contents of the model: a start can be negative, and
\* for the shorter contents starts and ends lie at or past the end
SegStarts == (0 - 1) .. (MaxContentLen - 1)

SegEnds == 1 .. MaxContentLen

HighlightIds == <<"h1", "h2", "h3", "h4", "h5">>

\* Lists of n highlights with arbitrary (unvalidated) ranges; the i-th has id HighlightIds[i].
HighlightLists(n) ==
    { [i \in 1..n |-> [id |-> HighlightIds[i], start |-> f[i][1], end |-> f[i][2],
                       color |-> "yellow"]] :
        f \in [1..n -> SegStarts \X SegEnds] }

InitSeg ==
    /\ \E n \in 0..MaxContentLen, k \in 0..MaxHighlights :
         \E hs \in HighlightLists(k) :
            state = [initialState EXCEPT !.content = Doc(n), !.highlights = hs]
    /\ segments = <<>>
    /\ mounted = FALSE
    /\ timer = NULL
    /\ rawText = <<>>
    /\ citations = <<>>
    /\ displayText = <<>>
    /\ chunkCount = 0
    /\ last = NoHandler
    /\ seenIds = {}
    /\ ComposerIdle
    /\ ToolIdle

RenderViewer ==
    /\ ~mounted
    /\ mounted' = TRUE
    /\ segments' = segmentText(state.content, state.highlights)
    /\ UNCHANGED <<state, timer, rawText, citations, displayText, chunkCount, last, seenIds,
                   composerVars, toolVars>>

NextSeg == RenderViewer

SpecSeg == InitSeg /\ [][NextSeg]_vars

\* ------------------------------------------------------------------------
\* Citation extractor (ChatSidebar.extractCitations / stripCitations)
\* ------------------------------------------------------------------------
Digits ==
    "0" :> 0 @@ "1" :> 1 @@ "2" :> 2 @@ "3" :> 3 @@ "4" :> 4 @@
    "5" :> 5 @@ "6" :> 6 @@ "7" :> 7 @@ "8" :> 8 @@ "9" :> 9

\* \d of a regular expression without the u flag
IsDigit(c) == c \in DOMAIN Digits

DigitValue(c) == Digits[c]

\* \s restricted to the white space characters the model uses
IsSpace(c) == c \in {" ", "\n", "\t"}

\* Number(match[k]) for a non-empty string of decimal digits
RECURSIVE Number(_)
Number(ds) ==
    IF ds = <<>> THEN 0
    ELSE 10 * Number(SubSeq(ds, 1, Len(ds) - 1)) + DigitValue(ds[Len(ds)])

\* Index of the last character of the greedy run \d* that starts at index i
\* (i - 1 when text[i] is not a digit)
RECURSIVE DigitsEnd(_, _)
DigitsEnd(text, i) ==
    IF i <= Len(text) /\ IsDigit(text[i]) THEN DigitsEnd(text, i + 1) ELSE i - 1

\* One attempt of /\[(\d+):(\d+)\]/ at index i of text
MatchAt(text, i) ==
    LET e1 == DigitsEnd(text, i + 1)
        e2 == DigitsEnd(text, e1 + 2)
        ok == /\ i <= Len(text) /\ text[i] = "["
              /\ e1 >= i + 1
              /\ e1 + 1 <= Len(text) /\ text[e1 + 1] = ":"
              /\ e2 >= e1 + 2
              /\ e2 + 1 <= Len(text) /\ text[e2 + 1] = "]"
    IN  IF ok
        THEN [ok |-> TRUE, index |-> i, last |-> e2 + 1,
              g1 |-> SubSeq(text, i + 1, e1), g2 |-> SubSeq(text, e1 + 2, e2)]
        ELSE [ok |-> FALSE, index |-> i, last |-> i, g1 |-> <<>>, g2 |-> <<>>]

\* text.matchAll(CITATION_REGEX) from lastIndex i: leftmost matches, each
\* search resuming after the previous match
RECURSIVE MatchAll(_, _)
MatchAll(text, i) ==
    IF i > Len(text) THEN <<>>
    ELSE LET m == MatchAt(text, i) IN
         IF m.ok THEN <<m>> \o MatchAll(text, m.last + 1)
         ELSE MatchAll(text, i + 1)

AcceptCitation_AllowEmpty(start, end) == end >= start

\* !Number.isNaN(start) && !Number.isNaN(end) && end > start; a string of
\* digits never converts to NaN
AcceptCitation(start, end) == end > start

RECURSIVE CollectCitations(_)
CollectCitations(matches) ==
    IF matches = <<>> THEN <<>>
    ELSE LET start == Number(Head(matches).g1)
             end   == Number(Head(matches).g2)
         IN  (IF AcceptCitation(start, end)
              THEN <<[start |-> start, end |-> end]>> ELSE <<>>)
             \o CollectCitations(Tail(matches))

Reverse(s) == [k \in 1..Len(s) |-> s[Len(s) + 1 - k]]

extractCitations_Unshift(text) == Reverse(CollectCitations(MatchAll(text, 1)))

extractCitations(text) == CollectCitations(MatchAll(text, 1))

\* text.replace(CITATION_REGEX, ""): one pass, the text between the matches
\* is copied as it is
RECURSIVE RemoveMatches(_, _)
RemoveMatches(text, i) ==
    IF i > Len(text) THEN <<>>
    ELSE LET m == MatchAt(text, i) IN
         IF m.ok THEN RemoveMatches(text, m.last + 1)
         ELSE <<text[i]>> \o RemoveMatches(text, i + 1)

RECURSIVE SpacesEnd(_, _)
SpacesEnd(text, i) ==
    IF i <= Len(text) /\ IsSpace(text[i]) THEN SpacesEnd(text, i + 1) ELSE i - 1

\* text.replace(/\s{2,}/g, " ")
RECURSIVE CollapseSpaces(_, _)
CollapseSpaces(text, i) ==
    IF i > Len(text) THEN <<>>
    ELSE LET e == SpacesEnd(text, i) IN
         IF e >= i + 1 THEN <<" ">> \o CollapseSpaces(text, e + 1)
         ELSE <<text[i]>> \o CollapseSpaces(text, i + 1)

\* String.prototype.trim
RECURSIVE Trim(_)
Trim(text) ==
    IF text = <<>> THEN <<>>
    ELSE IF IsSpace(Head(text)) THEN Trim(Tail(text))
    ELSE IF IsSpace(text[Len(text)]) THEN Trim(SubSeq(text, 1, Len(text) - 1))
    ELSE text

stripCitations_NoTrim(text) == CollapseSpaces(RemoveMatches(text, 1), 1)

stripCitations(text) == Trim(CollapseSpaces(RemoveMatches(text, 1), 1))

\* The range passed to onJumpToSource by the button labelled "Source n"
SourceButton(cits, n) == cits[n]

\* ------------------------------------------------------------------------
\* Specification of the chat transcript: the text of an assistant message
\* arrives in chunks and MessageBubble is rendered again after each chunk.
\* ------------------------------------------------------------------------
StreamChunks ==
    { <<"1">>, <<":">>, <<"]">>, <<" ">>, <<"a">>,
      <<"[", "1", ":", "2", "]">>, <<"[", "2", ":", "1", "]">>,
      <<"[", "0", ":", "3", "]">>, <<"[", "1">>, <<":", "2", "]">> }

InitChat ==
    /\ state = initialState
    /\ segments = <<>>
    /\ mounted = FALSE
    /\ timer = NULL
    /\ rawText = <<>>
    /\ citations = extractCitations(<<>>)
    /\ displayText = stripCitations(<<>>)
    /\ chunkCount = 0
    /\ last = NoHandler
    /\ seenIds = {}
    /\ ComposerIdle
    /\ ToolIdle

StreamChunk(chunk) ==
    /\ chunkCount < MaxChunks
    /\ chunkCount' = chunkCount + 1
    /\ rawText' = rawText \o chunk
    /\ citations' = extractCitations(rawText')
    /\ displayText' = stripCitations(rawText')
    /\ UNCHANGED <<state, segments, mounted, timer, last, seenIds, composerVars, toolVars>>

NextChat == \E chunk \in StreamChunks : StreamChunk(chunk)

SpecChat == InitChat /\ [][NextChat]_vars

\* ------------------------------------------------------------------------
\* Specification of the store: any sequence of reducer actions, dispatched
\* by any consumer of the context.
\* ------------------------------------------------------------------------
StoreIds == {"h1", "h2"}

StoreHighlights ==
    { [id |-> id, start |-> 0, end |-> 2, color |-> "yellow"] : id \in StoreIds }

StoreComments ==
    { [id |-> c[1], highlightId |-> c[2], text |-> "t", createdAt |-> 0] :
        c \in { <<"c1", "h1">>, <<"c1", "h2">>, <<"c2", "h2">> } }

StoreMessage == [id |-> "m1", role |-> "user", content |-> <<>>, createdAt |-> 0]

InitStore ==
    /\ state = [initialState EXCEPT !.content = InitialContent]
    /\ segments = <<>>
    /\ mounted = FALSE
    /\ timer = NULL
    /\ rawText = <<>>
    /\ citations = <<>>
    /\ displayText = <<>>
    /\ chunkCount = 0
    /\ last = NoHandler
    /\ seenIds = {}
    /\ ComposerIdle
    /\ ToolIdle

\* dispatch(action): the reducer runs to completion; last records the action
\* and by how much it changed the lengths of the two lists
Dispatch(action) ==
    /\ state' = documentReducer(state, action)
    /\ seenIds' = seenIds \cup HighlightIdsOf(state'.highlights)
    /\ last' = [type |-> action.type, payload |-> action.payload,
                highlights |-> Len(state'.highlights) - Len(state.highlights),
                comments |-> Len(state'.comments) - Len(state.comments)]
    /\ UNCHANGED <<segments, mounted, timer, rawText, citations, displayText, chunkCount,
                   composerVars, toolVars>>

SetContent(content) == Dispatch(Action("SET_CONTENT", content))

AddHighlight(highlight) ==
    /\ Len(state.highlights) < MaxStoreHighlights
    /\ Dispatch(Action("ADD_HIGHLIGHT", highlight))

RemoveHighlight(id) == Dispatch(Action("REMOVE_HIGHLIGHT", id))

ClearHighlights == Dispatch(Action("CLEAR_HIGHLIGHTS", NULL))

AddComment(comment) ==
    /\ Len(state.comments) < MaxComments
    /\ Dispatch(Action("ADD_COMMENT", comment))

RemoveComment(id) == Dispatch(Action("REMOVE_COMMENT", id))

AddMessage(message) ==
    /\ Len(state.messages) < 1
    /\ Dispatch(Action("ADD_MESSAGE", message))

ClearMessages == Dispatch(Action("CLEAR_MESSAGES", NULL))

ScrollToHighlight(id) == Dispatch(Action("SCROLL_TO_HIGHLIGHT", id))

SetFocusedHighlight(id) == Dispatch(Action("SET_FOCUSED_HIGHLIGHT", id))

SetLoading(flag) == Dispatch(Action("SET_LOADING", flag))

Reset == Dispatch(Action("RESET", NULL))

\* An action whose type is none of the twelve of DocumentAction
UnknownAction == Dispatch(Action("UNKNOWN", NULL))

NextStore ==
    \/ SetContent(InitialContent)
    \/ \E h \in StoreHighlights : AddHighlight(h)
    \/ \E id \in StoreIds : RemoveHighlight(id)
    \/ ClearHighlights
    \/ \E c \in StoreComments : AddComment(c)
    \/ \E id \in {"c1", "c2"} : RemoveComment(id)
    \/ AddMessage(StoreMessage)
    \/ ClearMessages
    \/ \E id \in {"h1", NULL} : ScrollToHighlight(id)
    \/ \E id \in {"h1", NULL} : SetFocusedHighlight(id)
    \/ \E flag \in BOOLEAN : SetLoading(flag)
    \/ Reset
    \/ UnknownAction

SpecStore == InitStore /\ [][NextStore]_vars

\* ------------------------------------------------------------------------
\* Specification of the transcript: the same reducer actions, with longer
\* transcripts and at most one highlight and one comment.
\* ------------------------------------------------------------------------
TranscriptMessages ==
    { [id |-> "m1", role |-> "user", content |-> <<>>, createdAt |-> 0],
      [id |-> "m2", role |-> "assistant", content |-> <<>>, createdAt |-> 0] }

AppendMessage(message) ==
    /\ Len(state.messages) < MaxMessages
    /\ Dispatch(Action("ADD_MESSAGE", message))

NextTranscript ==
    \/ SetContent(InitialContent)
    \/ state.highlights = <<>> /\ \E h \in StoreHighlights : h.id = "h1" /\ AddHighlight(h)
    \/ RemoveHighlight("h1")
    \/ ClearHighlights
    \/ state.comments = <<>> /\ \E c \in StoreComments : c.highlightId = "h1" /\ AddComment(c)
    \/ RemoveComment("c1")
    \/ \E m \in TranscriptMessages : AppendMessage(m)
    \/ ClearMessages
    \/ \E id \in {"h1", NULL} : ScrollToHighlight(id)
    \/ \E id \in {"h1", NULL} : SetFocusedHighlight(id)
    \/ \E flag \in BOOLEAN : SetLoading(flag)
    \/ Reset
    \/ UnknownAction

SpecTranscript == InitStore /\ [][NextTranscript]_vars

\* ------------------------------------------------------------------------
\* Citation search of the chat route (findCitationRanges)
\* ------------------------------------------------------------------------

\* One UTF-16 code unit lowered by String.prototype.toLowerCase. "U+0130" is
\* the code unit of the capital I with dot above, whose lower case is the two
\* code units "i" and "U+0307" (combining dot above).
LowerOf(c) ==
    CASE c = "A" -> <<"a">>
      [] c = "D" -> <<"d">>
      [] c = "U+0130" -> <<"i", "U+0307">>
      [] OTHER -> <<c>>

RECURSIVE ToLowerCase(_)
ToLowerCase(text) ==
    IF text = <<>> THEN <<>> ELSE LowerOf(Head(text)) \o ToLowerCase(Tail(text))

\* String.prototype.indexOf(needle, from) for 0 <= from: the least offset at
\* or after from where needle occurs, -1 when there is none
IndexOf(hay, needle, from) ==
    LET hits == { i \in from .. (Len(hay) - Len(needle)) :
                     SubSeq(hay, i + 1, i + Len(needle)) = needle }
    IN  IF hits = {} THEN 0 - 1
        ELSE CHOOSE i \in hits : \A j \in hits : i <= j

\* The while loop of findCitationRanges; c holds the constants of the call
RECURSIVE FindLoop(_, _, _)
FindLoop(c, cursor, ranges) ==
    IF ~(cursor < Len(c.lowerDoc) /\ Len(ranges) < c.maxResults) THEN ranges
    ELSE
        LET index == IndexOf(c.lowerDoc, c.lowerQuery, cursor) IN
        IF index = 0 - 1 THEN ranges
        ELSE
            LET end == index + Len(c.trimmedQuery)
            IN  FindLoop(c, end,
                         Append(ranges, [start |-> index, end |-> end,
                                         text |-> Slice(c.document, index, end)]))

findCitationRanges(document, query, maxResults) ==
    IF document = <<>> THEN <<>>
    ELSE
        LET trimmedQuery == Trim(query) IN
        IF trimmedQuery = <<>> THEN <<>>
        ELSE FindLoop([document |-> document, trimmedQuery |-> trimmedQuery,
                       lowerDoc |-> ToLowerCase(document),
                       lowerQuery |-> ToLowerCase(trimmedQuery),
                       maxResults |-> maxResults],
                      0, <<>>)

\* ------------------------------------------------------------------------
\* Specification of the citation search: the route executes one
\* findCitationRanges tool call over an arbitrary document and query.
\* ------------------------------------------------------------------------
\* Code units of the documents and queries of the model
SearchChars == {"a", "A", "U+0130", " "}

StringsUpTo(chars, n) == UNION { [1..k -> chars] : k \in 0..n }

InitFind ==
    /\ state = initialState
    /\ segments = <<>>
    /\ mounted = FALSE
    /\ timer = NULL
    /\ rawText = <<>>
    /\ citations = <<>>
    /\ displayText = <<>>
    /\ chunkCount = 0
    /\ last = NoHandler
    /\ seenIds = {}
    /\ ComposerIdle
    /\ \E document \in StringsUpTo(SearchChars, MaxDocLen),
          query \in StringsUpTo(SearchChars, MaxQueryLen),
          maxResults \in 1..MaxResults :
            toolCall = <<[document |-> document, query |-> query,
                          maxResults |-> maxResults]>>
    /\ toolResult = <<>>

\* execute of the findCitationRanges tool
ExecuteFindCitationRanges ==
    /\ toolCall # <<>>
    /\ toolResult = <<>>
    /\ toolResult' = <<findCitationRanges(toolCall[1].document, toolCall[1].query,
                                          toolCall[1].maxResults)>>
    /\ UNCHANGED <<state, segments, mounted, timer, rawText, citations, displayText,
                   chunkCount, last, seenIds, composerVars, toolCall>>

NextFind == ExecuteFindCitationRanges

SpecFind == InitFind /\ [][NextFind]_vars

\* ------------------------------------------------------------------------
\* Application (page, DocumentViewer effects, ChatSidebar handlers)
\* ------------------------------------------------------------------------

\* highlightRefs.current.get(id): a span is rendered, and its ref stored
\* under the id, for every segment that is bound to a highlight
HasHighlightElement(segs, id) ==
    \E k \in DOMAIN segs :
        segs[k].highlight # <<>> /\ segs[k].highlight[1].id = id

\* The commit that follows a batch of dispatches: the segments are computed
\* again and the scroll effect of DocumentViewer runs if scrollToHighlightId
\* has changed. The cleanup of the previous run cancels its timeout; when the
\* element of the new target is found the target is focused and a timeout is
\* started for it.
Commit_FocusUnlocated(before, after, pending) ==
    LET segs == segmentText(after.content, after.highlights)
        id   == after.scrollToHighlightId
    IN  IF id = before.scrollToHighlightId
        THEN [state |-> after, segments |-> segs, timer |-> pending]
        ELSE IF id # NULL
        THEN [state |-> ReduceSetFocusedHighlight(after, id),
              segments |-> segs,
              timer |-> IF HasHighlightElement(segs, id) THEN id ELSE NULL]
        ELSE [state |-> after, segments |-> segs, timer |-> NULL]

Commit_NoFocus(before, after, pending) ==
    LET segs == segmentText(after.content, after.highlights)
        id   == after.scrollToHighlightId
    IN  IF id = before.scrollToHighlightId
        THEN [state |-> after, segments |-> segs, timer |-> pending]
        ELSE IF id # NULL /\ HasHighlightElement(segs, id)
        THEN [state |-> after, segments |-> segs, timer |-> id]
        ELSE [state |-> after, segments |-> segs, timer |-> NULL]

Commit_KeepsPendingTimer(before, after, pending) ==
    LET segs == segmentText(after.content, after.highlights)
        id   == after.scrollToHighlightId
    IN  IF id = before.scrollToHighlightId
        THEN [state |-> after, segments |-> segs, timer |-> pending]
        ELSE IF id # NULL /\ HasHighlightElement(segs, id)
        THEN [state |-> ReduceSetFocusedHighlight(after, id),
              segments |-> segs, timer |-> IF pending # NULL THEN pending ELSE id]
        ELSE [state |-> after, segments |-> segs, timer |-> pending]

Commit(before, after, pending) ==
    LET segs == segmentText(after.content, after.highlights)
        id   == after.scrollToHighlightId
    IN  IF id = before.scrollToHighlightId
        THEN [state |-> after, segments |-> segs, timer |-> pending]
        ELSE IF id # NULL /\ HasHighlightElement(segs, id)
        THEN [state |-> ReduceSetFocusedHighlight(after, id),
              segments |-> segs, timer |-> id]
        ELSE [state |-> after, segments |-> segs, timer |-> NULL]

\* Index of the first highlight with exactly this range, 0 when there is none
\* (highlights.find)
RECURSIVE FindExistingFrom(_, _, _)
FindExistingFrom(highlights, range, i) ==
    IF i > Len(highlights) THEN 0
    ELSE IF highlights[i].start = range.start /\ highlights[i].end = range.end
         THEN i
         ELSE FindExistingFrom(highlights, range, i + 1)

FindExisting_Never(highlights, range) == 0

FindExisting(highlights, range) == FindExistingFrom(highlights, range, 1)

CitationHighlight_Swapped(id, range) ==
    [id |-> id, start |-> range.end, end |-> range.start, color |-> "blue"]

\* The highlight synthesized for a citation
CitationHighlight(id, range) ==
    [id |-> id, start |-> range.start, end |-> range.end, color |-> "blue"]

\* handleJumpToSource(range) up to the end of its dispatches; freshId is the
\* value of `hl-${Date.now()}-${random}`
JumpToSource(st, range, freshId) ==
    LET found == FindExisting(st.highlights, range)
        highlightId == IF found # 0 THEN st.highlights[found].id ELSE freshId
        added == IF found = 0
                 THEN ReduceAddHighlight(st, CitationHighlight(highlightId, range))
                 ELSE st
    IN  [existing |-> found # 0, highlightId |-> highlightId,
         state |-> ReduceSetFocusedHighlight(
                       ReduceScrollToHighlight(added, highlightId), highlightId)]

handleHighlightClick_AlwaysFocus(st, highlightId) ==
    ReduceSetFocusedHighlight(st, highlightId)

\* setFocusedHighlight(focusedHighlightId === highlightId ? null : highlightId);
\* the callback is created again whenever focusedHighlightId changes, so it
\* reads the focus of the current state
handleHighlightClick(st, highlightId) ==
    ReduceSetFocusedHighlight(
        st, IF st.focusedHighlightId = highlightId THEN NULL ELSE highlightId)

handleContainerPointerDown_ClearsScroll(st, onHighlight) ==
    IF onHighlight THEN st
    ELSE ReduceScrollToHighlight(ReduceSetFocusedHighlight(st, NULL), NULL)

\* onMouseDown of the container; onHighlight is
\* target.closest("[data-highlight-id]") being found
handleContainerPointerDown(st, onHighlight) ==
    IF onHighlight THEN st ELSE ReduceSetFocusedHighlight(st, NULL)

\* onKeyDown of the editable document
handleEditableKeyDown(st, key) ==
    IF key = "Escape" THEN ReduceSetFocusedHighlight(st, NULL) ELSE st

handleContentInput_ClearsHighlights(st, text) ==
    ReduceClearHighlights(ReduceSetContent(st, text))

\* onInput of the editable document; text is the innerText of the edited
\* element without its comment popovers
handleContentInput(st, text) == ReduceSetContent(st, text)

\* handleLoadDocument of the header once prompt() has returned text:
\* dispatch RESET, then setContent(text); nothing when text is empty
handleLoadDocument(st, text) ==
    IF text = <<>> THEN st
    ELSE ReduceSetContent(ReduceReset(st), text)

\* const searchTerm = "derivative";
SearchTerm == <<"d", "e", "r", "i", "v", "a", "t", "i", "v", "e">>

SampleHighlight_EmptyRange(id, start) ==
    [id |-> id, start |-> start, end |-> start, color |-> "yellow"]

\* The highlight of the demo button
SampleHighlight(id, start) ==
    [id |-> id, start |-> start, end |-> start + Len(SearchTerm), color |-> "yellow"]

\* The comment of the demo button
SampleComment(commentId, highlightId) ==
    [id |-> commentId, highlightId |-> highlightId, text |-> "t", createdAt |-> 0]

\* handleAddSampleHighlight of the header; id is the value of
\* `hl-${Date.now()}` and commentId that of `comment-${Date.now()}`
handleAddSampleHighlight(st, id, commentId) ==
    IF st.content = <<>> THEN st
    ELSE
        LET start == IndexOf(ToLowerCase(st.content), SearchTerm, 0) IN
        IF start = 0 - 1 THEN st
        ELSE ReduceAddComment(ReduceAddHighlight(st, SampleHighlight(id, start)),
                              SampleComment(commentId, id))

\* A handler has run to completion on the mounted page: its dispatches are
\* applied and the viewer commits
Handled(after, record) ==
    /\ mounted
    /\ LET done == Commit(state, after, timer)
       IN  /\ state' = done.state
           /\ segments' = done.segments
           /\ timer' = done.timer
           /\ seenIds' = seenIds \cup HighlightIdsOf(done.state.highlights)
    /\ last' = record
    /\ UNCHANGED <<mounted, rawText, citations, displayText, chunkCount,
                   composerVars, toolVars>>

\* A rendered highlight span is clicked: mousedown reaches the container
\* (and returns early), then onClick calls handleHighlightClick
HighlightClick(id) ==
    /\ HasHighlightElement(segments, id)
    /\ Handled(handleHighlightClick(handleContainerPointerDown(state, TRUE), id),
               [type |-> "handleHighlightClick", highlightId |-> id,
                wasFocused |-> (state.focusedHighlightId = id),
                repeat |-> (last.type = "handleHighlightClick"
                               /\ last.highlightId = id)])

\* The pointer goes down in the viewer outside every highlight span
PointerDownOutside ==
    Handled(handleContainerPointerDown(state, FALSE),
            [type |-> "handleContainerPointerDown",
             wasFocused |-> (state.focusedHighlightId # NULL)])

\* A key goes down in the editable document, which is rendered only for a
\* non-empty content
KeyDown(key) ==
    /\ state.content # <<>>
    /\ Handled(handleEditableKeyDown(state, key),
               [type |-> "handleEditableKeyDown", key |-> key,
                wasFocused |-> (state.focusedHighlightId # NULL)])

\* The user edits the document in place
ContentInput(text) ==
    /\ state.content # <<>>
    /\ Handled(handleContentInput(state, text),
               [type |-> "handleContentInput", text |-> text])

\* The user loads a document through the header
LoadDocument(text) ==
    Handled(handleLoadDocument(state, text),
            [type |-> "handleLoadDocument", text |-> text])

\* The demo button of the header is clicked
AddSampleHighlight(id, commentId) ==
    LET after == handleAddSampleHighlight(state, id, commentId)
    IN  /\ Len(after.highlights) <= MaxStoreHighlights
        /\ Len(after.comments) <= MaxComments
        /\ Handled(after, [type |-> "handleAddSampleHighlight",
                           added |-> (after # state), highlightId |-> id])

\* A consumer of the context calls scrollToHighlight(id); pending is the id
\* whose timeout was running when it was called
RequestScroll(id) ==
    Handled(ReduceScrollToHighlight(state, id),
            [type |-> "scrollToHighlight", id |-> id, pending |-> timer])

\* A consumer of the context calls addHighlight(highlight)
ProviderAddHighlight(highlight) ==
    /\ Len(state.highlights) < MaxStoreHighlights
    /\ Handled(ReduceAddHighlight(state, highlight),
               [type |-> "addHighlight", id |-> highlight.id])

\* A consumer of the context calls removeHighlight(id)
ProviderRemoveHighlight(id) ==
    Handled(ReduceRemoveHighlight(state, id),
            [type |-> "removeHighlight", id |-> id])

\* ------------------------------------------------------------------------
\* Specification of the application: the page is mounted over the sample
\* content, an assistant message streams in, its source buttons are clicked
\* and the scroll timeout fires.
\* ------------------------------------------------------------------------
AppIds == {"h1", "h2"}

\* "[1:2]" lies in the sample content; "[2:1][2:4]" holds an inverted marker
\* and a range that ends past the end of the sample content
AppChunks ==
    { <<"[", "1", ":", "2", "]">>,
      <<"[", "2", ":", "1", "]", "[", "2", ":", "4", "]">> }

\* Keys pressed in the editable document
AppKeys == {"Escape", "Enter"}

\* Texts the document is edited to
EditedTexts == {<<>>, Doc(1), Doc(MaxContentLen)}

\* Texts prompt() returns to the header ("" when nothing was typed)
LoadedTexts == {<<>>, Doc(2)}

Init ==
    /\ state = [initialState EXCEPT !.content = Doc(MaxContentLen)]
    /\ segments = segmentText(Doc(MaxContentLen), <<>>)
    /\ mounted = TRUE
    /\ timer = NULL
    /\ rawText = <<>>
    /\ citations = extractCitations(<<>>)
    /\ displayText = stripCitations(<<>>)
    /\ chunkCount = 0
    /\ last = NoHandler
    /\ seenIds = {}
    /\ ComposerIdle
    /\ ToolIdle

\* A chunk of the assistant message arrives
AppStreamChunk(chunk) ==
    /\ chunkCount < MaxAppChunks
    /\ StreamChunk(chunk)

\* The button "Source n" is clicked: handleJumpToSource and the commit
ClickSource(n, freshId) ==
    /\ n \in DOMAIN citations
    /\ LET range == SourceButton(citations, n)
           jump  == JumpToSource(state, range, freshId)
           done  == Commit(state, jump.state, timer)
       IN  /\ Len(jump.state.highlights) <= MaxStoreHighlights
           /\ state' = done.state
           /\ segments' = done.segments
           /\ timer' = done.timer
           /\ seenIds' = seenIds \cup HighlightIdsOf(done.state.highlights)
           /\ last' = [type |-> "handleJumpToSource", range |-> range,
                       existing |-> jump.existing, highlightId |-> jump.highlightId,
                       repeat |-> (last.type = "handleJumpToSource" /\ last.range = range)]
    /\ UNCHANGED <<mounted, rawText, citations, displayText, chunkCount,
                   composerVars, toolVars>>

\* The 500 ms timeout of the scroll effect fires: scrollToHighlight(null).
\* content and highlights are what they were, so useMemo keeps the segments;
\* the effect runs again for the null target and returns at once, after the
\* cleanup of its previous run has cleared the timeout that has just fired.
ScrollTimeout ==
    /\ timer # NULL
    /\ state' = ReduceScrollToHighlight(state, NULL)
    /\ timer' = NULL
    /\ last' = [type |-> "scrollTimeout"]
    /\ UNCHANGED <<segments, mounted, rawText, citations, displayText, chunkCount,
                   seenIds, composerVars, toolVars>>

Next ==
    \/ \E chunk \in AppChunks : AppStreamChunk(chunk)
    \/ \E n \in 1..MaxAppChunks, freshId \in AppIds : ClickSource(n, freshId)
    \/ ScrollTimeout
    \/ \E id \in AppIds : HighlightClick(id)
    \/ PointerDownOutside
    \/ \E key \in AppKeys : KeyDown(key)
    \/ \E text \in EditedTexts : ContentInput(text)
    \/ \E text \in LoadedTexts : LoadDocument(text)

Spec == Init /\ [][Next]_vars

\* ------------------------------------------------------------------------
\* Specification of the citation activation alone: an assistant message
\* streams in and the user clicks its source buttons one at a time, each
\* after the timeout of the previous scroll has fired; every new highlight
\* gets an id that is not in the store.
\* ------------------------------------------------------------------------
\* "[0:3]" is the whole sample content, "[1:2]" and "[2:3]" lie inside it
JumpChunks ==
    { <<"[", "0", ":", "3", "]">>,
      <<"[", "1", ":", "2", "]">>,
      <<"[", "2", ":", "3", "]">> }

JumpRanges ==
    { [start |-> 0, end |-> 3], [start |-> 1, end |-> 2], [start |-> 2, end |-> 3] }

JumpIds == <<"h1", "h2", "h3", "h4">>

NextJump ==
    \/ \E chunk \in JumpChunks : AppStreamChunk(chunk)
    \/ \E n \in 1..MaxAppChunks :
          timer = NULL /\ ClickSource(n, JumpIds[Len(state.highlights) + 1])
    \/ ScrollTimeout

SpecJump == Init /\ [][NextJump]_vars

\* The timeout of the scroll effect fires unless it is cancelled
SpecJumpFair == SpecJump /\ WF_vars(ScrollTimeout)

\* ------------------------------------------------------------------------
\* Specification of the call sites that add highlights: the source buttons
\* of the chat sidebar and the demo button of the header, with the loading
\* of documents that do and do not contain the search term.
\* ------------------------------------------------------------------------
\* Texts prompt() returns to the header: "", and "aDerivative"
HeaderTexts == {<<>>, <<"a", "D">> \o Tail(SearchTerm)}

NextAdders ==
    \/ \E chunk \in AppChunks : AppStreamChunk(chunk)
    \/ \E n \in 1..MaxAppChunks, freshId \in AppIds : ClickSource(n, freshId)
    \/ \E id \in AppIds : AddSampleHighlight(id, "c1")
    \/ \E text \in HeaderTexts : LoadDocument(text)
    \/ ScrollTimeout

SpecAdders == Init /\ [][NextAdders]_vars

\* ------------------------------------------------------------------------
\* Specification of the viewer: DocumentViewer is mounted in a provider, the
\* consumers of the context add and remove highlights and request scrolls,
\* the user clicks, dismisses and edits, and the scroll timeout fires.
\* ------------------------------------------------------------------------
ViewerIds == {"h1", "h2"}

\* h2 lies inside h1: it is rendered only while h1 is not in the store
ViewerHighlights ==
    { [id |-> "h1", start |-> 0, end |-> 2, color |-> "yellow"],
      [id |-> "h2", start |-> 1, end |-> 2, color |-> "yellow"] }

InitViewer ==
    /\ state = [initialState EXCEPT !.content = Doc(MaxContentLen)]
    /\ segments = segmentText(Doc(MaxContentLen), <<>>)
    /\ mounted = TRUE
    /\ timer = NULL
    /\ rawText = <<>>
    /\ citations = <<>>
    /\ displayText = <<>>
    /\ chunkCount = 0
    /\ last = NoHandler
    /\ seenIds = {}
    /\ ComposerIdle
    /\ ToolIdle

NextViewer ==
    \/ \E h \in ViewerHighlights : ProviderAddHighlight(h)
    \/ \E id \in ViewerIds : ProviderRemoveHighlight(id)
    \/ \E id \in ViewerIds \cup {NULL} : RequestScroll(id)
    \/ \E id \in ViewerIds : HighlightClick(id)
    \/ PointerDownOutside
    \/ \E key \in AppKeys : KeyDown(key)
    \/ \E text \in EditedTexts : ContentInput(text)
    \/ ScrollTimeout

SpecViewer == InitViewer /\ [][NextViewer]_vars

\* The timeout of the scroll effect is a timer of the event loop: once
\* started it fires unless it is cancelled
SpecViewerFair == SpecViewer /\ WF_vars(ScrollTimeout)

\* ------------------------------------------------------------------------
\* Composer of the chat sidebar (ChatSidebar: input, useChat, handleSend)
\* ------------------------------------------------------------------------

\* const isLoading = status === "streaming" || status === "submitted";
IsLoading(st) == st = "streaming" \/ st = "submitted"

\* handleSend up to the call of sendMessage: sent tells whether it is called,
\* text is its argument, input the text of the composer afterwards
handleSend(text, loading) ==
    LET trimmed == Trim(text) IN
    IF trimmed = <<>> \/ loading
    THEN [sent |-> FALSE, text |-> trimmed, input |-> text]
    ELSE [sent |-> TRUE, text |-> trimmed, input |-> <<>>]

\* Texts typed into the composer
ComposerTexts == {<<>>, <<" ">>, <<"q">>, <<" ", "q", " ">>}

\* onChange of the textarea
InputChange(text) ==
    /\ input' = text
    /\ last' = [type |-> "handleInputChange"]
    /\ UNCHANGED <<state, segments, mounted, timer, rawText, citations, displayText,
                   chunkCount, seenIds, status, inFlight, toolVars>>

\* Enter is pressed in the textarea (or the send button is clicked):
\* handleSend runs; sendMessage posts the transcript with document: content
\* and useChat sets its status to "submitted"
Send ==
    /\ LET send == handleSend(input, IsLoading(status))
       IN  /\ input' = send.input
           /\ status' = IF send.sent THEN "submitted" ELSE status
           /\ inFlight' = IF send.sent THEN inFlight + 1 ELSE inFlight
           /\ last' = [type |-> "handleSend", sent |-> send.sent, text |-> send.text,
                       document |-> state.content]
    /\ UNCHANGED <<state, segments, mounted, timer, rawText, citations, displayText,
                   chunkCount, seenIds, toolVars>>

\* The first chunk of the response arrives
ResponseStreams ==
    /\ status = "submitted"
    /\ status' = "streaming"
    /\ last' = [type |-> "responseStreams"]
    /\ UNCHANGED <<state, segments, mounted, timer, rawText, citations, displayText,
                   chunkCount, seenIds, input, inFlight, toolVars>>

\* The response ends, with its last chunk or with an error
ResponseEnds(outcome) ==
    /\ IsLoading(status)
    /\ status' = outcome
    /\ inFlight' = inFlight - 1
    /\ last' = [type |-> "responseEnds"]
    /\ UNCHANGED <<state, segments, mounted, timer, rawText, citations, displayText,
                   chunkCount, seenIds, input, toolVars>>

\* ------------------------------------------------------------------------
\* Specification of the composer: the page is mounted over the sample
\* content; the user types, sends, edits and loads documents, and the
\* responses stream in and end.
\* ------------------------------------------------------------------------
NextSend ==
    \/ \E text \in ComposerTexts : InputChange(text)
    \/ Send
    \/ ResponseStreams
    \/ \E outcome \in {"ready", "error"} : ResponseEnds(outcome)
    \/ \E text \in EditedTexts : ContentInput(text)
    \/ \E text \in LoadedTexts : LoadDocument(text)

SpecSend == Init /\ [][NextSend]_vars

\* ------------------------------------------------------------------------
\* Claims about the reducer (checked under SpecStore)
\* ------------------------------------------------------------------------

\* C2: REMOVE_HIGHLIGHT(id) removes every highlight whose id is id and
\* exactly the comments whose highlightId is id; every other comment and
\* every other highlight is kept, in its original relative order.
C2_RemoveHighlightCascades ==
    [][\A id \in StoreIds :
          RemoveHighlight(id) =>
              /\ state'.highlights =
                    Pick(state.highlights,
                         { i \in DOMAIN state.highlights : state.highlights[i].id # id })
              /\ state'.comments =
                    Pick(state.comments,
                         { i \in DOMAIN state.comments :
                              state.comments[i].highlightId # id })]_vars

\* Witness of C2: REMOVE_HIGHLIGHT has just removed a highlight and at least
\* one comment, and kept another highlight and a comment on it.
C2_Witness ==
    /\ last.type = "REMOVE_HIGHLIGHT"
    /\ last.highlights < 0 /\ last.comments < 0
    /\ state.highlights # <<>>
    /\ state.comments # <<>>
    /\ \A i \in DOMAIN state.comments :
          state.comments[i].highlightId \in HighlightIdsOf(state.highlights)

\* C3 (as claimed): in no reachable state is there a comment whose
\* highlightId is the id of a highlight that was in the store earlier and is
\* no longer in the store.
C3_NoCommentOfRemovedHighlight ==
    \A i \in DOMAIN state.comments :
        state.comments[i].highlightId \in seenIds =>
            state.comments[i].highlightId \in HighlightIdsOf(state.highlights)

\* C3 (amended): no reducer action takes the last highlight with some id out
\* of the store and leaves a comment with that highlightId in it.
C3_RemovalLeavesNoComment ==
    [][\A id \in HighlightIdsOf(state.highlights) \ HighlightIdsOf(state'.highlights) :
          \A i \in DOMAIN state'.comments : state'.comments[i].highlightId # id]_vars

\* Witness of C3: the last action took a highlight and at least one comment
\* out of the store, and no comment names a highlight that is gone.
C3_Witness ==
    /\ last.type \in {"REMOVE_HIGHLIGHT", "CLEAR_HIGHLIGHTS"}
    /\ last.highlights < 0 /\ last.comments < 0
    /\ seenIds \ HighlightIdsOf(state.highlights) # {}
    /\ \A i \in DOMAIN state.comments :
          state.comments[i].highlightId \in HighlightIdsOf(state.highlights)

\* C15: CLEAR_HIGHLIGHTS applied to any state yields a state whose highlights
\* and comments are empty and whose content, messages, scroll target, focus
\* and loading flag are those of the state it was applied to.
C15_ClearHighlightsKeepsRest ==
    [][ClearHighlights =>
          /\ state'.highlights = <<>>
          /\ state'.comments = <<>>
          /\ state'.content = state.content
          /\ state'.messages = state.messages
          /\ state'.scrollToHighlightId = state.scrollToHighlightId
          /\ state'.focusedHighlightId = state.focusedHighlightId
          /\ state'.isLoading = state.isLoading]_vars

\* Witness of C15: CLEAR_HIGHLIGHTS has just emptied a store that held
\* highlights and comments, and the content, the transcript, both cursors and
\* the loading flag still have values other than the initial ones.
C15_Witness ==
    /\ last.type = "CLEAR_HIGHLIGHTS"
    /\ last.highlights < 0 /\ last.comments < 0
    /\ state.highlights = <<>> /\ state.comments = <<>>
    /\ state.content # <<>>
    /\ state.messages # <<>>
    /\ state.scrollToHighlightId # NULL
    /\ state.focusedHighlightId # NULL
    /\ state.isLoading

\* C16 (as claimed): in every state reachable by reducer actions no two
\* highlights of the store have the same id.
C16_HighlightIdsUnique ==
    \A i, j \in DOMAIN state.highlights :
        i # j => state.highlights[i].id # state.highlights[j].id

\* The fields of a DocumentState, each of its kind
IsDocumentState(st) ==
    /\ DOMAIN st = {"content", "highlights", "comments", "messages",
                    "scrollToHighlightId", "focusedHighlightId", "isLoading"}
    /\ DOMAIN st.content = 1..Len(st.content)
    /\ DOMAIN st.highlights = 1..Len(st.highlights)
    /\ DOMAIN st.comments = 1..Len(st.comments)
    /\ DOMAIN st.messages = 1..Len(st.messages)
    /\ st.isLoading \in BOOLEAN

\* C19: the reducer returns a state for every state and every action (last
\* is the action that was dispatched in the step). A
\* REMOVE_HIGHLIGHT of an id that is not in the store changes no highlight, a
\* REMOVE_COMMENT of an id that is not in the store changes nothing, an
\* ADD_COMMENT whose highlightId matches no highlight appends the comment,
\* a cursor action with an id that matches no highlight sets the cursor, and
\* an action of unknown type returns the state unchanged.
C19_ReducerTotal ==
    [][LET ids == HighlightIdsOf(state.highlights) IN
       /\ IsDocumentState(state')
       /\ (last'.type = "REMOVE_HIGHLIGHT" /\ last'.payload \notin ids) =>
             state' = [state EXCEPT
                          !.comments = SelectSeq(state.comments,
                                           LAMBDA c : c.highlightId # last'.payload)]
       /\ (last'.type = "REMOVE_COMMENT"
               /\ \A i \in DOMAIN state.comments :
                     state.comments[i].id # last'.payload) =>
             state' = state
       /\ (last'.type = "ADD_COMMENT" /\ last'.payload.highlightId \notin ids) =>
             state' = [state EXCEPT !.comments = state.comments \o <<last'.payload>>]
       /\ (last'.type = "SCROLL_TO_HIGHLIGHT" /\ last'.payload \notin ids) =>
             state' = [state EXCEPT !.scrollToHighlightId = last'.payload]
       /\ (last'.type = "SET_FOCUSED_HIGHLIGHT" /\ last'.payload \notin ids) =>
             state' = [state EXCEPT !.focusedHighlightId = last'.payload]
       /\ last'.type \notin
               {"SET_CONTENT", "ADD_HIGHLIGHT", "REMOVE_HIGHLIGHT", "CLEAR_HIGHLIGHTS",
                "ADD_COMMENT", "REMOVE_COMMENT", "ADD_MESSAGE", "CLEAR_MESSAGES",
                "SCROLL_TO_HIGHLIGHT", "SET_FOCUSED_HIGHLIGHT", "SET_LOADING",
                "RESET"} =>
             state' = state]_vars

\* Witness of C19: an action of unknown type was applied to a store that
\* holds a highlight, a comment whose highlight is not in the store and a
\* focus that matches no highlight.
C19_Witness ==
    /\ last.type = "UNKNOWN"
    /\ state.highlights # <<>>
    /\ \E i \in DOMAIN state.comments :
          state.comments[i].highlightId \notin HighlightIdsOf(state.highlights)
    /\ state.focusedHighlightId \notin HighlightIdsOf(state.highlights) \cup {NULL}
    /\ state.scrollToHighlightId \notin HighlightIdsOf(state.highlights) \cup {NULL}

\* C20: RESET applied to any state returns the empty state: content "",
\* no highlight, comment or message, both cursors null, loading false; the
\* content the provider was constructed with is not restored.
C20_ResetReturnsEmptyState ==
    [][Reset =>
          /\ state'.content = <<>>
          /\ state'.content # InitialContent
          /\ state'.highlights = <<>>
          /\ state'.comments = <<>>
          /\ state'.messages = <<>>
          /\ state'.scrollToHighlightId = NULL
          /\ state'.focusedHighlightId = NULL
          /\ state'.isLoading = FALSE]_vars

\* Witness of C20: RESET has just emptied a store that held highlights and
\* comments, and the content is "" and not the provider's initial content.
C20_Witness ==
    /\ last.type = "RESET"
    /\ last.highlights < 0 /\ last.comments < 0
    /\ state.content = <<>>
    /\ InitialContent # <<>>
    /\ state.highlights = <<>> /\ state.messages = <<>>
    /\ state.focusedHighlightId = NULL

\* The reducer actions that change one field of the state, with that field
OneFieldActions ==
    { <<"ADD_HIGHLIGHT", "highlights">>, <<"ADD_COMMENT", "comments">>,
      <<"REMOVE_COMMENT", "comments">>, <<"ADD_MESSAGE", "messages">>,
      <<"CLEAR_MESSAGES", "messages">>,
      <<"SCROLL_TO_HIGHLIGHT", "scrollToHighlightId">>,
      <<"SET_FOCUSED_HIGHLIGHT", "focusedHighlightId">>,
      <<"SET_LOADING", "isLoading">> }

\* C21: SET_CONTENT replaces content with the payload verbatim and leaves
\* highlights, comments, messages, scroll target, focus and loading flag
\* unchanged; each of ADD_HIGHLIGHT, ADD_COMMENT, REMOVE_COMMENT, ADD_MESSAGE,
\* CLEAR_MESSAGES, SCROLL_TO_HIGHLIGHT, SET_FOCUSED_HIGHLIGHT and SET_LOADING
\* changes only its one field (last is the action dispatched in the step).
C21_ActionsChangeOneField ==
    [][/\ last'.type = "SET_CONTENT" =>
             state' = [state EXCEPT !.content = last'.payload]
       /\ \A a \in OneFieldActions :
             last'.type = a[1] =>
                 \A f \in DOMAIN state \ {a[2]} : state'[f] = state[f]]_vars

\* Witness of C21: SET_CONTENT has just set the content of a store that
\* holds a highlight, a comment, a message, both cursors and the loading flag.
C21_Witness ==
    /\ last.type = "SET_CONTENT"
    /\ state.content = last.payload /\ state.content # <<>>
    /\ state.highlights # <<>> /\ state.comments # <<>> /\ state.messages # <<>>
    /\ state.scrollToHighlightId # NULL /\ state.focusedHighlightId # NULL
    /\ state.isLoading

\* C23 (as claimed): whenever focusedHighlightId is not null, exactly one
\* highlight of the store has that id.
C23_FocusedHighlightIsOne ==
    state.focusedHighlightId # NULL =>
        Cardinality({ i \in DOMAIN state.highlights :
                         state.highlights[i].id = state.focusedHighlightId }) = 1

\* C23 (amended): focusedHighlightId is changed by SET_FOCUSED_HIGHLIGHT, which
\* sets it to its payload whatever the highlights are, and by RESET only;
\* REMOVE_HIGHLIGHT, CLEAR_HIGHLIGHTS and SET_CONTENT leave it as it is, also
\* when they remove the highlight it names.
C23_FocusKeptByOtherActions ==
    [][/\ last'.type = "SET_FOCUSED_HIGHLIGHT" =>
             state'.focusedHighlightId = last'.payload
       /\ last'.type = "RESET" => state'.focusedHighlightId = NULL
       /\ last'.type \notin {"SET_FOCUSED_HIGHLIGHT", "RESET"} =>
             state'.focusedHighlightId = state.focusedHighlightId]_vars

\* Witness of C23: REMOVE_HIGHLIGHT has just removed the focused highlight;
\* the focus still names it and no highlight of the store has that id.
C23_Witness ==
    /\ last.type = "REMOVE_HIGHLIGHT"
    /\ last.highlights < 0
    /\ state.focusedHighlightId = last.payload
    /\ state.focusedHighlightId \notin HighlightIdsOf(state.highlights)

\* ------------------------------------------------------------------------
\* Claims about the transcript (checked under SpecTranscript)
\* ------------------------------------------------------------------------

\* C22: messages keep insertion order: ADD_MESSAGE appends its payload at the
\* end, also when a message with that id is already there, and no action
\* other than CLEAR_MESSAGES and RESET changes the list of messages.
C22_MessagesKeepInsertionOrder ==
    [][/\ last'.type = "ADD_MESSAGE" =>
             state'.messages = state.messages \o <<last'.payload>>
       /\ last'.type \notin {"ADD_MESSAGE", "CLEAR_MESSAGES", "RESET"} =>
             state'.messages = state.messages]_vars

\* Witness of C22: ADD_MESSAGE has just appended a message whose id was
\* already in the transcript, and both are there.
C22_Witness ==
    /\ last.type = "ADD_MESSAGE"
    /\ Len(state.messages) >= 2
    /\ state.messages[Len(state.messages)] = last.payload
    /\ \E i \in 1 .. (Len(state.messages) - 1) : state.messages[i].id = last.payload.id

\* ------------------------------------------------------------------------
\* Claims about the citation activation (checked under Spec; C30 under SpecAdders)
\* ------------------------------------------------------------------------

\* The indexes of the highlights with exactly this range
WithRange(highlights, range) ==
    { i \in DOMAIN highlights :
        highlights[i].start = range.start /\ highlights[i].end = range.end }

Lowest(S) == CHOOSE x \in S : \A y \in S : x <= y

\* C4: activating the same citation range twice, starting from a store with
\* no highlight of that range, results in exactly one highlight with that
\* range: an activation adds a highlight only when the store has none of that
\* range, and the second of two activations of a range adds nothing.
C4_JumpTwiceOneHighlight ==
    [][\A n \in DOMAIN citations, freshId \in AppIds :
          ClickSource(n, freshId) =>
              LET range  == citations[n]
                  before == Cardinality(WithRange(state.highlights, range))
                  after  == Cardinality(WithRange(state'.highlights, range))
              IN  /\ after = (IF before = 0 THEN 1 ELSE before)
                  /\ (last.type = "handleJumpToSource" /\ last.range = range) =>
                        /\ state'.highlights = state.highlights
                        /\ (~last.existing => after = 1)]_vars

\* Witness of C4: the same range was activated twice in a row, the second
\* activation found the highlight of the first and the store has exactly one
\* highlight of that range.
C4_Witness ==
    /\ last.type = "handleJumpToSource"
    /\ last.repeat /\ last.existing
    /\ Cardinality(WithRange(state.highlights, last.range)) = 1
    /\ Len(state.highlights) = 2

\* C5: when a citation is activated and a highlight with exactly its range
\* is in the store, no highlight is added and both cursors are set to the id
\* of that highlight; otherwise exactly one highlight {new id, start, end,
\* blue} is appended and both cursors are set to the new id; in both cases the
\* cursors are equal afterwards and refer to a highlight in the store.
C5_JumpReusesOrCreates ==
    [][\A n \in DOMAIN citations, freshId \in AppIds :
          ClickSource(n, freshId) =>
              LET range == citations[n]
                  same  == WithRange(state.highlights, range)
              IN  /\ IF same # {}
                     THEN /\ state'.highlights = state.highlights
                          /\ state'.scrollToHighlightId =
                                state.highlights[Lowest(same)].id
                     ELSE /\ state'.highlights =
                                state.highlights \o
                                    <<[id |-> freshId, start |-> range.start,
                                       end |-> range.end, color |-> "blue"]>>
                          /\ state'.scrollToHighlightId = freshId
                  /\ state'.focusedHighlightId = state'.scrollToHighlightId
                  /\ state'.scrollToHighlightId \in HighlightIdsOf(state'.highlights)]_vars

\* Witness of C5: an activation has just appended a highlight after another
\* one, and both cursors are its id.
C5_Witness ==
    /\ last.type = "handleJumpToSource"
    /\ ~last.existing
    /\ Len(state.highlights) = 2
    /\ state.highlights[2].id = last.highlightId
    /\ state.highlights[2].color = "blue"
    /\ state.scrollToHighlightId = last.highlightId
    /\ state.focusedHighlightId = last.highlightId

\* C17 (as claimed): every citation the extractor returns lies within the
\* current document, 0 <= start < end <= content.length, and the highlight a
\* citation activation has just added lies within the document.
C17_CitationsWithinDocument ==
    /\ \A n \in DOMAIN citations :
          /\ 0 <= citations[n].start
          /\ citations[n].start < citations[n].end
          /\ citations[n].end <= Len(state.content)
    /\ (last.type = "handleJumpToSource" /\ ~last.existing) =>
          \A i \in DOMAIN state.highlights :
              state.highlights[i].id = last.highlightId =>
                  state.highlights[i].end <= Len(state.content)

\* A rendered segment is bound to a highlight with this range, that highlight
\* is the focused one and the scroll target is null again
Located(range) ==
    /\ state.scrollToHighlightId = NULL
    /\ \E k \in DOMAIN segments :
          /\ segments[k].highlight # <<>>
          /\ segments[k].highlight[1].start = range.start
          /\ segments[k].highlight[1].end = range.end
          /\ segments[k].highlight[1].id = state.focusedHighlightId

\* C25 (as claimed): after a citation is activated the system eventually
\* reaches a state in which a rendered segment is bound to the highlight with
\* the range of the citation, focusedHighlightId is the id of that highlight
\* and the scroll target is null again.
C25_ActivationLocatesCitation ==
    \A range \in JumpRanges :
        (last.type = "handleJumpToSource" /\ last.range = range) ~> Located(range)

\* C30: every highlight the application adds, by a citation activation or by
\* the demo button, has 0 <= start < end when it is added, and the comment of
\* the demo button is added with the id of the highlight added by the same
\* handler; no inverted or empty highlight is reachable in the application.
C30_AppHighlightsWellFormed ==
    /\ [](\A i \in DOMAIN state.highlights :
             0 <= state.highlights[i].start
                 /\ state.highlights[i].start < state.highlights[i].end)
    /\ [][/\ \A i \in (Len(state.highlights) + 1) .. Len(state'.highlights) :
               /\ last'.type \in {"handleJumpToSource", "handleAddSampleHighlight"}
               /\ 0 <= state'.highlights[i].start
               /\ state'.highlights[i].start < state'.highlights[i].end
          /\ (last'.type = "handleAddSampleHighlight" /\ last'.added
                 /\ state' # state) =>
               /\ Len(state'.highlights) = Len(state.highlights) + 1
               /\ Len(state'.comments) = Len(state.comments) + 1
               /\ state'.highlights[Len(state'.highlights)].id = last'.highlightId
               /\ state'.comments[Len(state'.comments)].highlightId
                     = last'.highlightId]_vars

\* Witness of C30: the demo button has just added its highlight and its
\* comment to a store that holds the highlight of an activated citation.
C30_Witness ==
    /\ last.type = "handleAddSampleHighlight"
    /\ last.added
    /\ Len(state.highlights) >= 2
    /\ state.highlights[1].color = "blue"
    /\ state.highlights[Len(state.highlights)].color = "yellow"
    /\ state.highlights[Len(state.highlights)].id = last.highlightId
    /\ state.highlights[Len(state.highlights)].end
          = state.highlights[Len(state.highlights)].start + Len(SearchTerm)
    /\ state.comments # <<>>
    /\ state.comments[Len(state.comments)].highlightId = last.highlightId

\* ------------------------------------------------------------------------
\* Claims about the scroll and focus cursors (checked under SpecViewer)
\* ------------------------------------------------------------------------

\* The step makes id the scroll target
BecomesScrollTarget(id) ==
    state.scrollToHighlightId # id /\ state'.scrollToHighlightId = id

\* C11: when the scroll target is set to an id for which the viewer has no
\* highlight element (the id is not in the store, or its highlight emitted no
\* segment), the focus stays what it was and no timeout is started; and
\* while a scroll target has no timeout pending, only a call of
\* scrollToHighlight changes it: the viewer never clears it.
C11_DanglingScrollStays ==
    [][/\ \A id \in ViewerIds :
             (BecomesScrollTarget(id) /\ ~HasHighlightElement(segments', id)) =>
                 /\ state'.focusedHighlightId = state.focusedHighlightId
                 /\ state'.scrollToHighlightId = id
                 /\ timer' = NULL
       /\ (state.scrollToHighlightId # NULL /\ timer = NULL
              /\ state'.scrollToHighlightId # state.scrollToHighlightId) =>
                 last'.type = "scrollToHighlight"]_vars

\* Witness of C11: the scroll target is an id whose highlight is in the
\* store but emitted no segment, no timeout is pending, the focus is on the
\* other highlight, and another handler has run since the target was set.
C11_Witness ==
    /\ state.scrollToHighlightId = "h2"
    /\ "h2" \in HighlightIdsOf(state.highlights)
    /\ ~HasHighlightElement(segments, "h2")
    /\ timer = NULL
    /\ state.focusedHighlightId = "h1"
    /\ last.type = "handleHighlightClick"

\* C12: when the scroll target becomes an id whose highlight element is
\* rendered, the focus is set to that id in the same commit, while the scroll
\* target is still that id, and the timeout is started; the timeout sets the
\* scroll target to null and leaves the focus alone; and a pending timeout
\* leads to a state where the scroll target is no longer that id (cleared by
\* the timeout unless it was changed in the meantime).
C12_ScrollFocusesThenClears ==
    /\ [][\A id \in ViewerIds :
             (BecomesScrollTarget(id) /\ HasHighlightElement(segments', id)) =>
                 /\ state'.focusedHighlightId = id
                 /\ timer' = id]_vars
    /\ [][(timer # NULL /\ last'.type = "scrollTimeout") =>
             /\ state.scrollToHighlightId = timer
             /\ state' = [state EXCEPT !.scrollToHighlightId = NULL]
             /\ timer' = NULL]_vars
    /\ [][(timer # NULL /\ state'.scrollToHighlightId = state.scrollToHighlightId) =>
             timer' = timer]_vars
    /\ \A id \in ViewerIds :
          (timer = id) ~> (state.scrollToHighlightId # id)

\* Witness of C12: the timeout has just cleared the scroll target, and the
\* focus is still on the highlight that was scrolled to.
C12_Witness ==
    /\ last.type = "scrollTimeout"
    /\ state.scrollToHighlightId = NULL
    /\ timer = NULL
    /\ state.focusedHighlightId # NULL
    /\ HasHighlightElement(segments, state.focusedHighlightId)

\* C13: a click on the rendered highlight h sets the focus to null when the
\* focus was h and to h otherwise, and changes nothing else (the scroll
\* target and its timeout included); the second of two consecutive clicks on
\* h makes 'the focus is h' again what it was before the first.
C13_ClickTogglesFocus ==
    [][last'.type = "handleHighlightClick" =>
          LET h == last'.highlightId IN
          /\ state' = [state EXCEPT !.focusedHighlightId =
                           IF state.focusedHighlightId = h THEN NULL ELSE h]
          /\ timer' = timer
          /\ (last.type = "handleHighlightClick" /\ last.highlightId = h) =>
                ((state'.focusedHighlightId = h) <=> last.wasFocused)]_vars

\* Witness of C13: the second of two consecutive clicks on a highlight has
\* cleared the focus that the first click moved to it from another
\* highlight, while a scroll target is set.
C13_Witness ==
    /\ last.type = "handleHighlightClick"
    /\ last.repeat /\ last.wasFocused
    /\ state.focusedHighlightId = NULL
    /\ state.scrollToHighlightId # NULL

\* C14: a dismissal (pointer down outside every highlight element, or the
\* Escape key in the document) sets the focus to null whatever the focus and
\* the scroll target were, and changes no other field of the store.
C14_DismissalClearsFocus ==
    [][(\/ last'.type = "handleContainerPointerDown"
        \/ (last'.type = "handleEditableKeyDown" /\ last'.key = "Escape")) =>
          /\ state'.focusedHighlightId = NULL
          /\ state' = [state EXCEPT !.focusedHighlightId = NULL]
          /\ timer' = timer]_vars

\* Witness of C14: a pointer down outside the highlights has just cleared a
\* focus while a scroll to a rendered highlight is pending.
C14_Witness ==
    /\ last.type = "handleContainerPointerDown"
    /\ last.wasFocused
    /\ state.focusedHighlightId = NULL
    /\ state.scrollToHighlightId # NULL
    /\ timer = state.scrollToHighlightId
    /\ state.highlights # <<>>

\* 0 <= start <= end <= content.length
WithinContent(hl, content) ==
    0 <= hl.start /\ hl.start <= hl.end /\ hl.end <= Len(content)

HighlightsWithinContent(st) ==
    \A i \in DOMAIN st.highlights : WithinContent(st.highlights[i], st.content)

C29_TimerClearsOwnTarget ==
    /\ [](timer # NULL => state.scrollToHighlightId = timer)
    /\ [][/\ (timer # NULL /\ state'.scrollToHighlightId # state.scrollToHighlightId) =>
               timer' # timer
          /\ (state.scrollToHighlightId # NULL /\ state'.scrollToHighlightId = NULL) =>
               \/ last'.type = "scrollTimeout" /\ timer = state.scrollToHighlightId
               \/ last'.type = "scrollToHighlight" /\ last'.id = NULL]_vars

\* Witness of C29: the scroll target was changed to another highlight while
\* the timeout of the previous target was running; the timeout that runs now
\* is the one of the new target.
C29_Witness ==
    /\ last.type = "scrollToHighlight"
    /\ last.id # NULL
    /\ last.pending \notin {NULL, last.id}
    /\ state.scrollToHighlightId = last.id
    /\ timer = last.id

\* ------------------------------------------------------------------------
\* Claims about the citation extractor (checked under SpecChat)
\* ------------------------------------------------------------------------
Prefix(text, n) == SubSeq(text, 1, n)

IsPrefixOf(a, b) == Len(a) <= Len(b) /\ SubSeq(b, 1, Len(a)) = a

\* text[i..j] is a marker "[digits:digits]" with its colon at index c
IsMarkerWithColon(text, i, c, j) ==
    /\ i + 1 < c /\ c + 1 < j
    /\ text[i] = "[" /\ text[c] = ":" /\ text[j] = "]"
    /\ \A x \in (i + 1)..(c - 1) : IsDigit(text[x])
    /\ \A x \in (c + 1)..(j - 1) : IsDigit(text[x])

\* The markers of text as <<first index, index of the colon, last index>>
Markers(text) ==
    LET opens  == { x \in DOMAIN text : text[x] = "[" }
        colons == { x \in DOMAIN text : text[x] = ":" }
        closes == { x \in DOMAIN text : text[x] = "]" }
    IN  { m \in opens \X colons \X closes :
            IsMarkerWithColon(text, m[1], m[2], m[3]) }

\* Value of the decimal numeral text[a..b]
RECURSIVE Pow10(_)
Pow10(n) == IF n = 0 THEN 1 ELSE 10 * Pow10(n - 1)

RECURSIVE DecimalValue(_, _, _)
DecimalValue(text, a, b) ==
    IF a > b THEN 0
    ELSE DigitValue(text[a]) * Pow10(b - a) + DecimalValue(text, a + 1, b)

MarkerStart(text, m) == DecimalValue(text, m[1] + 1, m[2] - 1)

MarkerEnd(text, m) == DecimalValue(text, m[2] + 1, m[3] - 1)

\* The markers whose second number is strictly greater than the first
AcceptedMarkers(text) ==
    { m \in Markers(text) : MarkerEnd(text, m) > MarkerStart(text, m) }

\* Position of marker m among the markers of the set accepted, from the left
MarkerRank(accepted, m) ==
    Cardinality({ m2 \in accepted : m2[1] <= m[1] })

\* The part of text from index k to index n is a marker that is not finished
\* yet: "[", digits, and at most one colon after at least one digit
UnfinishedMarker(text, k, n) ==
    /\ text[k] = "["
    /\ \/ \A x \in (k + 1)..n : IsDigit(text[x])
       \/ \E c \in (k + 2)..n :
             /\ text[c] = ":"
             /\ \A x \in ((k + 1)..n) \ {c} : IsDigit(text[x])

\* C6: for every text and every prefix of it, the citations of the prefix
\* are a prefix of the citations of the text, and a prefix that ends inside a
\* marker yields no citation for that unfinished marker.
C6_CitationsGrowWithPrefix ==
    \A n \in 0..Len(rawText) :
        /\ IsPrefixOf(extractCitations(Prefix(rawText, n)), citations)
        /\ \A k \in 1..n :
              UnfinishedMarker(rawText, k, n) =>
                  extractCitations(Prefix(rawText, n)) =
                      extractCitations(Prefix(rawText, k - 1))

\* Witness of C6: a streamed text one of whose prefixes ends inside a marker,
\* after a citation was already emitted, and whose completion added a
\* citation.
C6_Witness ==
    \E n \in 1..Len(rawText) :
        /\ \E k \in 1..n : UnfinishedMarker(rawText, k, n)
        /\ Len(extractCitations(Prefix(rawText, n))) >= 1
        /\ Len(citations) > Len(extractCitations(Prefix(rawText, n)))

\* The example of the specification: "See [10:20] and [5:2]."
ExampleText ==
    <<"S", "e", "e", " ", "[", "1", "0", ":", "2", "0", "]", " ", "a", "n",
      "d", " ", "[", "5", ":", "2", "]", ".">>

ContainsMarker(text) == Markers(text) # {}

NoSpaceRuns(text) ==
    /\ \A x \in 1..(Len(text) - 1) : ~(IsSpace(text[x]) /\ IsSpace(text[x + 1]))
    /\ (text # <<>> => ~IsSpace(text[1]) /\ ~IsSpace(text[Len(text)]))

\* C8 (as claimed): the display text contains no marker, no run of two or
\* more white space characters and no leading or trailing white space.
C8_DisplayHasNoMarker ==
    /\ ~ContainsMarker(displayText)
    /\ NoSpaceRuns(displayText)

\* The indexes of text that lie inside one of its markers
InsideMarkers(text) == UNION { m[1]..m[3] : m \in Markers(text) }

\* The characters of text other than white space and other than those at
\* the indexes in drop, from index i on
RECURSIVE VisibleFrom(_, _, _)
VisibleFrom(text, drop, i) ==
    IF i > Len(text) THEN <<>>
    ELSE (IF IsSpace(text[i]) \/ i \in drop THEN <<>> ELSE <<text[i]>>)
         \o VisibleFrom(text, drop, i + 1)

\* C8 (amended): every marker of the raw text is removed (the characters of
\* the display text other than white space are exactly those of the raw text
\* outside its markers, in order), and the display text has no run of two or
\* more white space characters and no leading or trailing white space.
C8_DisplayDropsRawMarkers ==
    /\ VisibleFrom(displayText, {}, 1) =
          VisibleFrom(rawText, InsideMarkers(rawText), 1)
    /\ NoSpaceRuns(displayText)

\* Witness of C8: a raw text with a marker and leading white space, whose
\* display text is not empty.
C8_Witness ==
    /\ ContainsMarker(rawText)
    /\ rawText # <<>> /\ IsSpace(rawText[1])
    /\ displayText # <<>>
    /\ Len(displayText) + 5 < Len(rawText)

\* ------------------------------------------------------------------------
\* Claims about the segmenter (checked under SpecSeg)
\* ------------------------------------------------------------------------
ContentLen == Len(state.content)

\* Indexes of the segments bound to highlight h
SegmentsOf(h) == { k \in DOMAIN segments : segments[k].highlight = <<h>> }

\* Segment k renders the character at offset p
Renders(k, p) == segments[k].start <= p /\ p < segments[k].end

RECURSIVE ConcatTexts(_)
ConcatTexts(segs) ==
    IF segs = <<>> THEN <<>> ELSE Head(segs).text \o ConcatTexts(Tail(segs))

\* C1: for every content and every list of highlights, the segments are in
\* document order and pairwise disjoint, each segment's text is
\* content[start, end), the first starts at 0, each starts where the previous
\* one ended, the last ends at content.length, and the concatenation of the
\* texts is the content.
C1_SegmentsPartitionContent ==
    mounted =>
        /\ \A k \in DOMAIN segments :
              /\ 0 <= segments[k].start
              /\ segments[k].start <= segments[k].end
              /\ segments[k].end <= ContentLen
              /\ segments[k].text =
                    [x \in 1..(segments[k].end - segments[k].start) |->
                        state.content[segments[k].start + x]]
        /\ (ContentLen > 0 => segments # <<>>)
        /\ (segments # <<>> =>
              /\ segments[1].start = 0
              /\ segments[Len(segments)].end = ContentLen)
        /\ \A k \in 2..Len(segments) : segments[k].start = segments[k - 1].end
        /\ ConcatTexts(segments) = state.content

\* Offsets of the content that lie in both ranges
OverlapOffsets(a, b) ==
    { p \in 0..(ContentLen - 1) :
        a.start <= p /\ p < a.end /\ b.start <= p /\ p < b.end }

RangesOverlap(a, b) ==
    Max(a.start, b.start) < Min(a.end, b.end)

\* Highlight i of the list comes before highlight j in the sorted order:
\* smaller start, or equal start and earlier in the list.
SortsBefore(i, j) ==
    LET hs == state.highlights IN
    \/ hs[i].start < hs[j].start
    \/ hs[i].start = hs[j].start /\ i < j

\* C9 (as claimed): for every pair of overlapping highlights, every character
\* of the overlapping region is rendered in a segment bound to the highlight
\* of the pair with the smaller start (the earlier in the list for equal
\* starts).
C9_EarlierStartOwnsOverlap ==
    mounted =>
        \A i, j \in DOMAIN state.highlights :
            LET a == state.highlights[i]
                b == state.highlights[j]
            IN  (SortsBefore(i, j) /\ RangesOverlap(a, b)) =>
                    \A p \in OverlapOffsets(a, b) :
                        \E k \in SegmentsOf(a) : Renders(k, p)

\* C9 (amended): for every pair of overlapping highlights, no character of
\* the overlapping region is rendered in a segment bound to the one that
\* sorts later; each such character inside the content is rendered in a
\* segment bound to the earlier one or to a highlight that sorts before it;
\* every segment of the later one starts at or after the (clamped) end of the
\* earlier one.
C9_LaterStartNeverOwnsOverlap ==
    mounted =>
        \A i, j \in DOMAIN state.highlights :
            LET a == state.highlights[i]
                b == state.highlights[j]
            IN  (SortsBefore(i, j) /\ RangesOverlap(a, b)) =>
                    /\ \A p \in OverlapOffsets(a, b) :
                          /\ \A k \in SegmentsOf(b) : ~Renders(k, p)
                          /\ \E m \in DOMAIN state.highlights :
                                /\ m = i \/ SortsBefore(m, i)
                                /\ \E k \in SegmentsOf(state.highlights[m]) :
                                      Renders(k, p)
                    /\ \A k \in SegmentsOf(b) :
                          segments[k].start >= Min(a.end, ContentLen)

\* Witness of C9: two overlapping highlights are rendered, the later one
\* truncated to a non-empty span after the earlier one.
C9_Witness ==
    /\ mounted
    /\ \E i, j \in DOMAIN state.highlights :
          LET a == state.highlights[i]
              b == state.highlights[j]
          IN  /\ SortsBefore(i, j) /\ RangesOverlap(a, b)
              /\ OverlapOffsets(a, b) # {}
              /\ \E k \in SegmentsOf(a) : segments[k].text # <<>>
              /\ \E k \in SegmentsOf(b) :
                    /\ segments[k].text # <<>>
                    /\ segments[k].start > b.start

\* C10 (as claimed): no segment ends after content.length or starts before
\* 0, and a highlight with end > content.length and start < content.length
\* yields a segment whose end is content.length.
C10_SegmentsClamped ==
    mounted =>
        /\ \A k \in DOMAIN segments :
              segments[k].end <= ContentLen /\ segments[k].start >= 0
        /\ \A i \in DOMAIN state.highlights :
              LET h == state.highlights[i] IN
              (h.end > ContentLen /\ h.start < ContentLen) =>
                  \E k \in SegmentsOf(h) : segments[k].end = ContentLen

\* C10 (amended): the same, for a content that is not empty; for the empty
\* content there is no segment at all.
C10_SegmentsClampedNonEmpty ==
    mounted =>
        /\ \A k \in DOMAIN segments :
              segments[k].end <= ContentLen /\ segments[k].start >= 0
        /\ (ContentLen = 0 => segments = <<>>)
        /\ \A i \in DOMAIN state.highlights :
              LET h == state.highlights[i] IN
              (ContentLen > 0 /\ h.end > ContentLen /\ h.start < ContentLen) =>
                  \E k \in SegmentsOf(h) : segments[k].end = ContentLen

\* Witness of C10: a highlight that runs past the end of a non-empty content
\* is rendered in a non-empty segment that ends at content.length.
C10_Witness ==
    /\ mounted
    /\ ContentLen > 0
    /\ \E i \in DOMAIN state.highlights :
          LET h == state.highlights[i] IN
          /\ h.end > ContentLen /\ h.start < ContentLen
          /\ \E k \in SegmentsOf(h) :
                segments[k].end = ContentLen /\ segments[k].text # <<>>

\* C26 (as claimed): with an empty highlight list segmentText returns exactly
\* one plain segment {text: content, highlight: null, start: 0, end:
\* content.length}, for every content including the empty string.
C26_NoHighlightsOneSegment ==
    (mounted /\ state.highlights = <<>>) =>
        segments = <<[text |-> state.content, highlight |-> <<>>,
                      start |-> 0, end |-> ContentLen]>>

\* C26 (amended): with an empty highlight list segmentText returns that one
\* plain segment for every content that is not empty, and no segment at all
\* for the empty string.
C26_NoHighlightsOneSegmentUnlessEmpty ==
    (mounted /\ state.highlights = <<>>) =>
        segments = IF ContentLen = 0 THEN <<>>
                   ELSE <<[text |-> state.content, highlight |-> <<>>,
                           start |-> 0, end |-> ContentLen]>>

\* Witness of C26: a content that is not empty is rendered without
\* highlights, as one plain segment.
C26_Witness ==
    /\ mounted
    /\ state.highlights = <<>>
    /\ ContentLen > 0
    /\ Len(segments) = 1
    /\ segments[1].highlight = <<>> /\ segments[1].text = state.content

\* C27 (as claimed): segmentText skips every highlight whose clamped range is
\* empty or behind the cursor: no emitted segment has start >= end, and no
\* segment bound to a highlight has an empty text.
C27_NoEmptySegment ==
    mounted =>
        \A k \in DOMAIN segments :
            /\ segments[k].start < segments[k].end
            /\ segments[k].highlight # <<>> => segments[k].text # <<>>

\* ------------------------------------------------------------------------
\* Claims about the citation search (checked under SpecFind)
\* ------------------------------------------------------------------------

\* The trimmed query occurs at offset p of the document, letter case aside
OccursAt(document, trimmedQuery, p) ==
    /\ p + Len(trimmedQuery) <= Len(document)
    /\ ToLowerCase(SubSeq(document, p + 1, p + Len(trimmedQuery)))
           = ToLowerCase(trimmedQuery)

\* C28 (as claimed): findCitationRanges returns at most maxResults ranges,
\* in ascending order and pairwise non-overlapping, each with
\* 0 <= start < end <= document.length, end - start the length of the trimmed
\* query and text equal to document[start, end) and matching the trimmed
\* query case-insensitively; the list is empty when the document or the
\* trimmed query is empty; and each result is the leftmost occurrence at or
\* after the end of the one before it.
C28_RangesLocateQuery ==
    toolResult # <<>> =>
        LET document == toolCall[1].document
            trimmedQuery == Trim(toolCall[1].query)
            ranges == toolResult[1]
        IN  /\ Len(ranges) <= toolCall[1].maxResults
            /\ (document = <<>> \/ trimmedQuery = <<>>) => ranges = <<>>
            /\ \A k \in DOMAIN ranges :
                  /\ 0 <= ranges[k].start
                  /\ ranges[k].start < ranges[k].end
                  /\ ranges[k].end <= Len(document)
                  /\ ranges[k].end - ranges[k].start = Len(trimmedQuery)
                  /\ ranges[k].text =
                        SubSeq(document, ranges[k].start + 1, ranges[k].end)
                  /\ OccursAt(document, trimmedQuery, ranges[k].start)
                  /\ LET from == IF k = 1 THEN 0 ELSE ranges[k - 1].end
                     IN  /\ from <= ranges[k].start
                         /\ \A p \in from .. (ranges[k].start - 1) :
                               ~OccursAt(document, trimmedQuery, p)

\* ------------------------------------------------------------------------
\* Claims about the composer (checked under SpecSend)
\* ------------------------------------------------------------------------

\* C24 (as claimed): handleSend issues no send when the content of the
\* document is empty, when the trimmed input is empty, or while the status is
\* "submitted" or "streaming"; so at most one response is in flight.
C24_NoSendWithoutPrecondition ==
    /\ [](inFlight <= 1)
    /\ [][(/\ last'.type = "handleSend"
           /\ \/ state.content = <<>>
              \/ Trim(input) = <<>>
              \/ status \in {"submitted", "streaming"})
            => (~last'.sent /\ inFlight' = inFlight /\ status' = status)]_vars

====
